---------------------------- MODULE Spec2Model ----------------------------
(***************************************************************************)
(* Model of the Node.js micro-transaction Lambda handler                   *)
(* (mmog-microtx-js/src/handler.js) and of the PostgreSQL table it writes  *)
(* (mmog-microtx-rs/migrations/001_create_transactions.sql).               *)
(*                                                                         *)
(* Strings are sequences of one-character strings, so that length, case    *)
(* and UUID syntax are computed and not assumed.                           *)
(***************************************************************************)
EXTENDS Integers, Sequences, FiniteSets, TLC

VARIABLES
    inv,            \* per invocation of exports.handler: its locals and position
    cachedClient,   \* handler.js:60, 0 is null
    clients,        \* the pg Client objects created so far and their server sessions
    queue,          \* per client: the invocations whose query is queued, in FIFO order
    committed,      \* the committed rows of table microtransactions, by transaction_id
    clock,          \* wall clock, read by new Date() and by NOW()
    faults,         \* number of store faults injected so far
    vin,            \* input of the validation harness
    vout,           \* output of the validation harness
    hin,            \* arguments of the query harness
    hout            \* result of the query harness

vars == <<inv, cachedClient, clients, queue, committed, clock, faults, vin, vout,
         hin, hout>>

(***************************************************************************)
(* Bounds of the model                                                     *)
(***************************************************************************)
MaxInv == 2
MaxFaults == 1
MaxClock == 1
MaxRows == 1001

(***************************************************************************)
(* Strings                                                                 *)
(***************************************************************************)
Lowers == <<"a","b","c","d","e","f","g","h","i","j","k","l","m",
            "n","o","p","q","r","s","t","u","v","w","x","y","z">>
Uppers == <<"A","B","C","D","E","F","G","H","I","J","K","L","M",
            "N","O","P","Q","R","S","T","U","V","W","X","Y","Z">>
Digits == {"0","1","2","3","4","5","6","7","8","9"}

IsLower(c) == \E k \in 1..26 : Lowers[k] = c
IsUpper(c) == \E k \in 1..26 : Uppers[k] = c
IsLetter(c) == IsLower(c) \/ IsUpper(c)

ToUpperChar(c) == IF IsLower(c) THEN Uppers[CHOOSE k \in 1..26 : Lowers[k] = c] ELSE c
ToLowerChar(c) == IF IsUpper(c) THEN Lowers[CHOOSE k \in 1..26 : Uppers[k] = c] ELSE c

ToUpperCase(s) == [k \in 1..Len(s) |-> ToUpperChar(s[k])]
ToLowerCase(s) == [k \in 1..Len(s) |-> ToLowerChar(s[k])]

IsHex(c) == c \in Digits \/ (\E k \in 1..6 : Lowers[k] = c \/ Uppers[k] = c)

Rep(c, n) == [k \in 1..n |-> c]

\* Joi string().uuid(): 8-4-4-4-12 hexadecimal digits separated by dashes.
IsUuid(s) ==
    /\ Len(s) = 36
    /\ \A k \in 1..36 :
          IF k \in {9, 14, 19, 24} THEN s[k] = "-" ELSE IsHex(s[k])

(***************************************************************************)
(* JSON values of a request body.  A field is a record with a type tag t:  *)
(* strings carry s, numbers carry n ("frac" is a non-integer number whose  *)
(* integer part is n), metadata carries kv, a sequence of <<key, value>>.  *)
(***************************************************************************)
NoStr == [t |-> "absent", s |-> <<>>]
Str(s) == [t |-> "str", s |-> s]
NoNum == [t |-> "absent", n |-> 0]
Int_(n) == [t |-> "int", n |-> n]
Frac(n) == [t |-> "frac", n |-> n]
NoObj == [t |-> "absent", kv |-> <<>>]
Obj(kv) == [t |-> "obj", kv |-> kv]
NotObj == [t |-> "other", kv |-> <<>>]

\* handler.js:36-44, the keys of purchaseSchema in the order Joi validates them
SchemaKeys == <<"player_id", "item_id", "item_name", "price_cents",
                "currency", "quantity", "metadata">>

ItemNameMax == 255
PriceMin == 1
PriceMax == 99999999
CurrencyLen == 3
QuantityMin == 1
QuantityMax == 100
QuantityDefault == 1

\* Joi converts before it validates (convert: true is the default):
\* string().uppercase() upper-cases the value.
CoerceCurrency(v) == IF v.t = "str" THEN Str(ToUpperCase(v.s)) ELSE v

RequiredString(v) ==
    IF v.t = "absent" THEN "any.required"
    ELSE IF Len(v.s) = 0 THEN "string.empty"
    ELSE "ok"

NumberRange(v, lo, hi) ==
    IF v.t = "frac" THEN "number.integer"
    ELSE IF v.n < lo THEN "number.min"
    ELSE IF v.n > hi THEN "number.max"
    ELSE "ok"

\* The first rule of purchaseSchema that field k of the object f violates, or "ok".
FieldError(k, f) ==
    CASE k = "player_id" ->
            IF RequiredString(f.player_id) # "ok" THEN RequiredString(f.player_id)
            ELSE IF ~IsUuid(f.player_id.s) THEN "string.guid" ELSE "ok"
      [] k = "item_id" -> RequiredString(f.item_id)
      [] k = "item_name" ->
            IF RequiredString(f.item_name) # "ok" THEN RequiredString(f.item_name)
            ELSE IF Len(f.item_name.s) > ItemNameMax THEN "string.max" ELSE "ok"
      [] k = "price_cents" ->
            IF f.price_cents.t = "absent" THEN "any.required"
            ELSE NumberRange(f.price_cents, PriceMin, PriceMax)
      [] k = "currency" ->
            IF RequiredString(f.currency) # "ok" THEN RequiredString(f.currency)
            ELSE IF Len(CoerceCurrency(f.currency).s) # CurrencyLen THEN "string.length"
            ELSE "ok"
      [] k = "quantity" ->
            IF f.quantity.t = "absent" THEN "ok"
            ELSE NumberRange(f.quantity, QuantityMin, QuantityMax)
      [] k = "metadata" ->
            IF f.metadata.t = "other" THEN "object.base" ELSE "ok"

\* Every violation of the object, in schema order (unknown keys are reported last).
AllDetails(b) ==
    LET F[k \in 0..Len(SchemaKeys)] ==
            IF k = 0 THEN <<>>
            ELSE IF FieldError(SchemaKeys[k], b.f) = "ok" THEN F[k-1]
            ELSE Append(F[k-1], <<SchemaKeys[k], FieldError(SchemaKeys[k], b.f)>>)
    IN  IF b.extra THEN Append(F[Len(SchemaKeys)], <<"extra", "object.unknown">>)
        ELSE F[Len(SchemaKeys)]

\* validate(body) is called without options (handler.js:243): Joi's default
\* abortEarly: true stops at the first violation.
AbortEarly(details) == IF details = <<>> THEN <<>> ELSE <<details[1]>>

\* A conversion that defaults quantity and leaves the case of currency alone.
ConvertKeepCase(f) == [f EXCEPT !.quantity = IF f.quantity.t = "absent"
                                             THEN Int_(QuantityDefault) ELSE @]

\* The converted value Joi returns for an object (handler.js:36-44, 243):
\* currency upper-cased, quantity defaulted.
Convert(f) ==
    [f EXCEPT !.currency = CoerceCurrency(@),
              !.quantity = IF @.t = "absent" THEN Int_(QuantityDefault) ELSE @]

NoFields == [player_id |-> NoStr, item_id |-> NoStr, item_name |-> NoStr,
             price_cents |-> NoNum, currency |-> NoStr, quantity |-> NoNum,
             metadata |-> NoObj]
UndefinedBody == [t |-> "undefined", f |-> NoFields, extra |-> FALSE]
NullBody == [t |-> "null", f |-> NoFields, extra |-> FALSE]
ObjectBody(f) == [t |-> "object", f |-> f, extra |-> FALSE]

\* purchaseSchema.validate(body): {error, value}.  error is <<>> when there is
\* none, otherwise the sequence error.details.  Joi.object() is not required(),
\* so undefined passes and is returned as it is.
Validate(b) ==
    CASE b.t = "undefined" -> [details |-> <<>>, value |-> b]
      [] b.t = "null" -> [details |-> <<(<<"value", "object.base">>)>>, value |-> b]
      [] b.t = "object" ->
            [details |-> AbortEarly(AllDetails(b)),
             value |-> [b EXCEPT !.f = Convert(b.f)]]

(***************************************************************************)
(* Events of exports.handler.  path '/a/b' is [head |-> "a", hasRest |->   *)
(* TRUE, rest |-> b]: rest is path.split('/')[2].  body.kind says what     *)
(* event.body is: "text" a string holding valid JSON, "badtext" a string   *)
(* that is no JSON, "value" anything that is not a string.                 *)
(***************************************************************************)
Path(head, hasRest, rest) == [head |-> head, hasRest |-> hasRest, rest |-> rest]
Event(method, path, kind, json) ==
    [method |-> method, path |-> path, body |-> [kind |-> kind, json |-> json]]

Player1 == <<"5","5","0","e","8","4","0","0","-","e","2","9","b","-","4","1","d","4",
             "-","a","7","1","6","-","4","4","6","6","5","5","4","4","0","0","0","0">>
Sword == <<"s","w","o","r","d","_","1">>

Purchase(price, currency, quantity, metadata) ==
    ObjectBody([player_id |-> Str(Player1), item_id |-> Str(Sword),
                item_name |-> Str(<<"S","w","o","r","d">>),
                price_cents |-> price, currency |-> Str(currency),
                quantity |-> quantity, metadata |-> metadata])

PurchasePath == Path("purchase", FALSE, <<>>)
Post(body) == Event("POST", PurchasePath, "text", body)

\* The requests the handler is driven with.
EvCheap == Post(Purchase(Int_(1999), <<"u","s","d">>, NoNum, NoObj))
EvBulk == Post(Purchase(Int_(99999), <<"E","U","R">>, Int_(100),
                        Obj(<<(<<"rarity", "legendary">>), (<<"bonus", "150">>)>>)))
EvDear == Post(Purchase(Int_(100000), <<"U","S","D">>, Int_(1), Obj(<<>>)))
EvInvalid == Post(Purchase(Int_(0), <<"U","S">>, Int_(0), NoObj))
EvHistory == Event("GET", Path("transactions", TRUE, Player1), "value", UndefinedBody)

Events == {EvCheap, EvBulk, EvDear, EvInvalid, EvHistory}

(***************************************************************************)
(* Rows of table microtransactions (001_create_transactions.sql:8-36).     *)
(* processor_id NullId is NULL.  metadata is JSONB: a set of <<key, value>>. *)
(***************************************************************************)
NullId == 0

TransactionStatus == [PENDING |-> "pending", COMPLETED |-> "completed",
                      FAILED |-> "failed", REFUNDED |-> "refunded"]

VarcharMax == 255

\* JSON.stringify(purchaseData.metadata || {}) (handler.js:128): the members in
\* insertion order.
JsonStringify(m) == IF m.t = "obj" THEN m.kv ELSE <<>>

\* PostgreSQL's jsonb input: an unordered object, the last of equal keys wins.
JsonbIn(text) ==
    {text[k] : k \in {k \in 1..Len(text) :
                        \A l \in (k+1)..Len(text) : text[l][1] # text[k][1]}}

\* The parameter array of the INSERT (handler.js:119-131).
InsertValues(transactionId, d, now) ==
    <<transactionId, d.player_id, d.item_id, d.item_name, d.price_cents,
      d.currency, d.quantity, TransactionStatus.PENDING,
      JsonStringify(d.metadata), now, now>>

\* a table without its CHECK constraints
InsertAcceptedUnchecked(v) ==
    /\ v[2].t = "str" /\ IsUuid(v[2].s)
    /\ v[3].t = "str" /\ Len(v[3].s) <= VarcharMax
    /\ v[4].t = "str" /\ Len(v[4].s) <= VarcharMax
    /\ v[5].t = "int"
    /\ v[6].t = "str" /\ Len(v[6].s) <= CurrencyLen
    /\ v[7].t = "int"

\* The column constraints: an INSERT that violates one is rejected.
InsertAccepted(v) ==
    /\ v[2].t = "str" /\ IsUuid(v[2].s)
    /\ v[3].t = "str" /\ Len(v[3].s) <= VarcharMax
    /\ v[4].t = "str" /\ Len(v[4].s) <= VarcharMax
    /\ v[5].t = "int" /\ v[5].n > 0 /\ v[5].n <= PriceMax
    /\ v[6].t = "str" /\ Len(v[6].s) <= CurrencyLen
    /\ v[7].t = "int" /\ v[7].n > 0 /\ v[7].n <= QuantityMax
    /\ v[8] \in {TransactionStatus[k] : k \in DOMAIN TransactionStatus}

\* CHAR(3) pads with blanks; UUID is stored in lower case.
PadChar(s) == s \o Rep(" ", CurrencyLen - Len(s))

RowOf(v) ==
    [transaction_id |-> v[1], player_id |-> ToLowerCase(v[2].s), item_id |-> v[3].s,
     item_name |-> v[4].s, price_cents |-> v[5].n, currency |-> PadChar(v[6].s),
     quantity |-> v[7].n, status |-> v[8], processor_id |-> NullId,
     metadata |-> JsonbIn(v[9]), created_at |-> v[10], updated_at |-> v[11]]

\* rows of old replaced by the rows of new with the same key
Merge(old, new) ==
    new \cup {r \in old : \A n \in new : n.transaction_id # r.transaction_id}

(***************************************************************************)
(* The store: one server session per pg Client.                            *)
(*   state   "unused" | "connecting" | "connected" | "dead"                *)
(*   ending  Client._ending; end() is never called by the handler          *)
(*   tx      "idle" | "open" | "aborted": the session's transaction block  *)
(*   overlay the rows written in the open transaction, not yet committed   *)
(*   txStart what NOW() returns inside the transaction block               *)
(***************************************************************************)
Inv == 1..MaxInv
\* every invocation creates at most one client
ClientIds == 1..MaxInv

NewSession == [state |-> "unused", ending |-> FALSE, tx |-> "idle",
               overlay |-> {}, txStart |-> 0]

\* What a statement of session cl sees.
View(cl, db) == IF cl.tx = "open" THEN Merge(db, cl.overlay) ELSE db

\* A write of session cl: into the transaction block, or committed at once.
Write(cl, db, rows) ==
    IF cl.tx = "open"
    THEN [cl |-> [cl EXCEPT !.overlay = Merge(@, rows)], db |-> db]
    ELSE [cl |-> cl, db |-> Merge(db, rows)]

\* update_updated_at_column (001_create_transactions.sql:45-56): NOW() is the
\* start of the transaction block, or of the statement outside a block.
Now(cl, t) == IF cl.tx = "open" THEN cl.txStart ELSE t

\* The outcomes a statement can have: "ok", "stmt" (the server rejects it),
\* "conn" (the connection is lost) or "timeout" (the client gives up after
\* query_timeout, handler.js:29, while the server completes the statement).  A
\* dead connection fails every statement, an aborted transaction block rejects
\* everything but COMMIT and ROLLBACK; any other failure is an injected fault.
Outcomes(cl, q, accepted) ==
    IF cl.state = "dead" THEN {"conn"}
    ELSE IF cl.tx = "aborted" /\ q \notin {"COMMIT", "ROLLBACK"} THEN {"stmt"}
    ELSE IF ~accepted THEN {"stmt"}
    ELSE {"ok"} \cup (IF faults < MaxFaults
                      THEN {"conn", "timeout"} \cup (IF q \in {"INSERT", "UPDATE", "COMMIT", "SELECT"}
                                                     THEN {"stmt"} ELSE {})
                      ELSE {})

Injected(cl, q, accepted, o) ==
    /\ o # "ok"
    /\ cl.state # "dead"
    /\ ~(cl.tx = "aborted" /\ q \notin {"COMMIT", "ROLLBACK"})
    /\ accepted

\* The session and the table after statement q with outcome o.  rows are the
\* rows q writes at time t.
Execute(cl, db, q, o, rows, t) ==
    CASE o = "conn" ->
            [cl |-> [cl EXCEPT !.state = "dead", !.tx = "idle", !.overlay = {}], db |-> db]
      [] o = "stmt" ->
            [cl |-> IF cl.tx = "idle" THEN cl
                    ELSE IF q = "COMMIT" THEN [cl EXCEPT !.tx = "idle", !.overlay = {}]
                    ELSE [cl EXCEPT !.tx = "aborted", !.overlay = {}],
             db |-> db]
      [] o \in {"ok", "timeout"} /\ q = "BEGIN" ->
            [cl |-> IF cl.tx = "idle" THEN [cl EXCEPT !.tx = "open", !.txStart = t] ELSE cl,
             db |-> db]
      [] o \in {"ok", "timeout"} /\ q \in {"INSERT", "UPDATE"} -> Write(cl, db, rows)
      [] o \in {"ok", "timeout"} /\ q = "COMMIT" ->
            [cl |-> [cl EXCEPT !.tx = "idle", !.overlay = {}],
             db |-> IF cl.tx = "open" THEN Merge(db, cl.overlay) ELSE db]
      [] o \in {"ok", "timeout"} /\ q = "ROLLBACK" ->
            [cl |-> [cl EXCEPT !.tx = "idle", !.overlay = {}], db |-> db]
      [] OTHER -> [cl |-> cl, db |-> db]

\* An UPDATE without its WHERE clause: it writes every row.
UpdateRowsAll(cl, db, status, updatedAt, id, t) ==
    {[r EXCEPT !.status = status, !.updated_at = Now(cl, t)] : r \in View(cl, db)}

\* UPDATE microtransactions SET status = $1, updated_at = $2 WHERE transaction_id = $3
\* (handler.js:144-152) with the trigger: the rows it writes.
UpdateRows(cl, db, status, updatedAt, id, t) ==
    {[r EXCEPT !.status = status, !.updated_at = Now(cl, t)] :
        r \in {r \in View(cl, db) : r.transaction_id = id}}

(***************************************************************************)
(* The locals of one invocation of exports.handler.                        *)
(*   pc       "idle", then the await it is suspended at, then "done"       *)
(*   target   the client getDbClient probes or connects                    *)
(*   client   const client = await getDbClient()                           *)
(*   caught   the error caught at handler.js:171, thrown the one that      *)
(*            reaches the handler's catch at handler.js:294                *)
(***************************************************************************)
NoError == [kind |-> "none", at |-> "none"]
Error(kind, at) == [kind |-> kind, at |-> at]
NoEvent == Event("none", Path("none", FALSE, <<>>), "value", UndefinedBody)
NoValue == [none |-> TRUE]

IdleInv ==
    [pc |-> "idle", ev |-> NoEvent, op |-> "none", value |-> UndefinedBody,
     playerId |-> <<>>, target |-> 0, client |-> 0, transactionId |-> NullId,
     now |-> 0, paymentData |-> NoValue, paymentResult |-> NoValue,
     updatedAt |-> 0, caught |-> NoError, thrown |-> NoError,
     resp |-> [statusCode |-> 0, body |-> NoValue]]

\* uuidv4(): invocation i draws the identifiers i and MaxInv + i.
TransactionIdOf(i) == i
ProcessorIdOf(i) == MaxInv + i

PaymentLimit == 100000
HistoryLimit == 100

\* What new Date() or NOW() can read next: time does not go back.
Times(t) == {u \in {t, t + 1} : u <= MaxClock}

\* An amount charged for the whole quantity.
PaymentDataTimesQuantity(d) ==
    [amount |-> d.price_cents.n * d.quantity.n, currency |-> d.currency.s,
     playerId |-> d.player_id.s]

\* processPayment's argument (handler.js:136-140).
PaymentData(d) ==
    [amount |-> d.price_cents.n, currency |-> d.currency.s, playerId |-> d.player_id.s]

\* processPayment (handler.js:182-196).
ProcessPayment(paymentData, id, t) ==
    LET success == paymentData.amount < PaymentLimit
    IN  IF success
        THEN [success |-> success, processorId |-> id, timestamp |-> t]
        ELSE [success |-> success, processorId |-> id, timestamp |-> t,
              error |-> "Payment declined"]

\* a finalization that ignores the declined result
FinalStatusCompleted(paymentResult) == TransactionStatus.COMPLETED

\* handler.js:145: paymentResult.success ? COMPLETED : FAILED
FinalStatus(paymentResult) ==
    IF paymentResult.success THEN TransactionStatus.COMPLETED
    ELSE TransactionStatus.FAILED

\* processPurchase's return value (handler.js:158-170).
PurchaseResult(l) ==
    [transactionId |-> l.transactionId,
     status |-> FinalStatus(l.paymentResult),
     item |-> [id |-> l.value.f.item_id.s, name |-> l.value.f.item_name.s,
               quantity |-> l.value.f.quantity.n],
     payment |-> [amount |-> l.value.f.price_cents.n,
                  currency |-> l.value.f.currency.s]]

\* The handler's return statements.
Respond(l, code, body) ==
    [l EXCEPT !.pc = "done", !.resp = [statusCode |-> code, body |-> body]]

\* a handler without its catch: the fault leaves the handler
InternalErrorThrows(l, e) == [l EXCEPT !.thrown = e, !.pc = "done"]

\* The handler's catch (handler.js:294-309).
InternalError(l, e) ==
    Respond([l EXCEPT !.thrown = e], 500, [error |-> "Internal server error"])

\* The handler's routing (handler.js:241, 265).
Route(ev) ==
    IF ev.method = "POST" /\ ev.path.head = "purchase" /\ ~ev.path.hasRest
    THEN "purchase"
    ELSE IF ev.method = "GET" /\ ev.path.head = "transactions" /\ ev.path.hasRest
    THEN "transactions"
    ELSE "notfound"

\* A handler that goes on to processPurchase whatever validate returned.
AfterValidateAlways(details) == "process"

\* if (error) return 400, else processPurchase(value) (handler.js:245-256).
AfterValidate(details) == IF details # <<>> THEN "reject" ELSE "process"

\* every arrangement of rows in a sequence
Arrangements(rows) ==
    LET n == Cardinality(rows)
    IN  {s \in [1..n -> rows] : \A a, b \in 1..n : a # b => s[a] # s[b]}

\* ORDER BY created_at DESC (handler.js:209): every order of the rows that is
\* sorted; rows of equal created_at come in any order.
RECURSIVE Ordered(_)
Ordered(rows) ==
    IF rows = {} THEN {<<>>}
    ELSE LET p == CHOOSE r \in rows : TRUE
             newer == {r \in rows : r.created_at > p.created_at}
             same == {r \in rows : r.created_at = p.created_at}
             older == {r \in rows : r.created_at < p.created_at}
         IN  {a \o b \o c : a \in Ordered(newer), b \in Arrangements(same),
                              c \in Ordered(older)}

\* LIMIT $2 (handler.js:210)
Limit(s, limit) == IF Len(s) <= limit THEN s ELSE SubSeq(s, 1, limit)

\* the default parameter limit = 100 (handler.js:202)
LimitArg(limit) == IF limit.t = "absent" THEN HistoryLimit ELSE limit.n

\* The results the SELECT of getPlayerTransactions can have on the rows view
\* (handler.js:206-213).
SelectRows(view, playerId, limit) ==
    {Limit(s, limit) : s \in Ordered({r \in view : r.player_id = ToLowerCase(playerId)})}

AtHead(i, c) ==
    /\ queue[c] # <<>>
    /\ Head(queue[c]) = i
    /\ clients[c].state \in {"connected", "dead"}

CountFault(cl, q, accepted, o) ==
    faults' = faults + (IF Injected(cl, q, accepted, o) THEN 1 ELSE 0)

(***************************************************************************)
(* getDbClient (handler.js:65-80), in the pieces between its awaits.  cls  *)
(* and qs are the clients and queues the piece starts from.                *)
(***************************************************************************)
\* lines 77-78: cachedClient = new Client(DB_CONFIG); await cachedClient.connect()
Connect(i, l, cls, qs) ==
    \E c \in ClientIds :
        /\ cls[c].state = "unused"
        /\ \A d \in 1..(c-1) : cls[d].state # "unused"
        /\ cachedClient' = c
        /\ clients' = [cls EXCEPT ![c].state = "connecting"]
        /\ queue' = qs
        /\ inv' = [inv EXCEPT ![i] = [l EXCEPT !.pc = "gc_connect", !.target = c]]

\* lines 67-69: the probe of the cached client
GetDbClient(i, l) ==
    IF cachedClient # 0 /\ ~clients[cachedClient].ending
    THEN /\ inv' = [inv EXCEPT ![i] = [l EXCEPT !.pc = "gc_probe",
                                                !.target = cachedClient]]
         /\ queue' = [queue EXCEPT ![cachedClient] = Append(@, i)]
         /\ UNCHANGED <<cachedClient, clients>>
    ELSE Connect(i, l, clients, queue)

\* return cachedClient, and the caller's first query on it: BEGIN
\* (handler.js:94) or the SELECT of getPlayerTransactions (handler.js:206).
Proceed(i, l, cls, qs) ==
    /\ cachedClient' = cachedClient
    /\ clients' = cls
    /\ queue' = [qs EXCEPT ![cachedClient] = Append(@, i)]
    /\ inv' = [inv EXCEPT ![i] =
                 [l EXCEPT !.client = cachedClient,
                           !.pc = IF l.op = "purchase" THEN "begin" ELSE "select"]]

(***************************************************************************)
(* exports.handler up to its first await (handler.js:224-278).             *)
(***************************************************************************)
Handle(i, ev) ==
    /\ inv[i].pc = "idle"
    /\ \A j \in 1..(i-1) : inv[j].pc # "idle"
    /\ LET l == [inv[i] EXCEPT !.ev = ev]
           quiet == /\ UNCHANGED <<cachedClient, clients, queue>>
       IN  IF ev.body.kind = "badtext"
           THEN /\ inv' = [inv EXCEPT ![i] = InternalError(l, Error("syntax", "JSON.parse"))]
                /\ quiet
           ELSE CASE Route(ev) = "purchase" ->
                       LET v == Validate(ev.body.json)
                       IN  IF AfterValidate(v.details) = "reject"
                           THEN /\ inv' = [inv EXCEPT ![i] =
                                     Respond(l, 400, [error |-> "Validation failed",
                                                      details |-> v.details])]
                                /\ quiet
                           ELSE GetDbClient(i, [l EXCEPT !.op = "purchase",
                                                         !.value = v.value])
                  [] Route(ev) = "transactions" ->
                       IF Len(ev.path.rest) = 0
                       THEN /\ inv' = [inv EXCEPT ![i] =
                                 Respond(l, 400, [error |-> "Player ID required"])]
                            /\ quiet
                       ELSE GetDbClient(i, [l EXCEPT !.op = "history",
                                                     !.playerId = ev.path.rest])
                  [] OTHER ->
                       /\ inv' = [inv EXCEPT ![i] = Respond(l, 404, [error |-> "Not found"])]
                       /\ quiet
    /\ UNCHANGED <<committed, clock, faults, vin, vout, hin, hout>>

\* The Lambda runtime hands a Node.js process one event at a time: the handler
\* is invoked when no other invocation is in flight.
Invoke(i, ev) ==
    /\ \A j \in Inv : inv[j].pc \in {"idle", "done"}
    /\ Handle(i, ev)

\* await cachedClient.query('SELECT 1') returns or throws (handler.js:69-73).
ProbeDone(i) ==
    /\ inv[i].pc = "gc_probe"
    /\ AtHead(i, inv[i].target)
    /\ LET c == inv[i].target
       IN  \E o \in Outcomes(clients[c], "SELECT 1", TRUE) :
             LET x == Execute(clients[c], committed, "SELECT 1", o, {}, clock)
                 cls == [clients EXCEPT ![c] = x.cl]
                 qs == [queue EXCEPT ![c] = Tail(@)]
             IN  /\ CountFault(clients[c], "SELECT 1", TRUE, o)
                 /\ IF o = "ok" THEN Proceed(i, inv[i], cls, qs)
                    ELSE Connect(i, inv[i], cls, qs)
    /\ UNCHANGED <<committed, clock, vin, vout, hin, hout>>

\* await cachedClient.connect() returns or throws (handler.js:78-79).
ConnectDone(i) ==
    /\ inv[i].pc = "gc_connect"
    /\ LET c == inv[i].target
       IN  \/ /\ Proceed(i, inv[i], [clients EXCEPT ![c].state = "connected"], queue)
              /\ faults' = faults
           \/ /\ faults < MaxFaults
              /\ faults' = faults + 1
              /\ clients' = [clients EXCEPT ![c].state = "dead"]
              /\ inv' = [inv EXCEPT ![i] = InternalError(@, Error("conn", "connect"))]
              /\ UNCHANGED <<cachedClient, queue>>
    /\ UNCHANGED <<committed, clock, vin, vout, hin, hout>>

(***************************************************************************)
(* processPurchase (handler.js:89-176), one action per await.              *)
(***************************************************************************)
\* The transaction-control statements processPurchase issues
\* (handler.js:94, 155, 173).
BeginStatement == "BEGIN"
CommitStatement == "COMMIT"
CatchStatement == "ROLLBACK"

\* a catch block that rethrows without the ROLLBACK
CatchRethrow(l, e) == InternalError([l EXCEPT !.caught = e], e)

\* The catch block: await client.query('ROLLBACK') (handler.js:171-173).
Catch(l, e) == [l EXCEPT !.caught = e, !.pc = "rollback"]

QueryPcs == {"gc_probe", "begin", "insert", "update", "commit", "rollback", "select"}

\* The statement at the head of a client's queue is executed and the
\* invocation that awaits it runs on: l is the invocation after that, which
\* has issued its next query on the same client unless it ended or waits for
\* the payment.
Step(i, x, l) ==
    /\ clients' = [clients EXCEPT ![inv[i].client] = x.cl]
    /\ committed' = x.db
    /\ queue' = [queue EXCEPT ![inv[i].client] =
                    IF l.pc \in QueryPcs THEN Append(Tail(@), i) ELSE Tail(@)]
    /\ inv' = [inv EXCEPT ![i] = l]
    /\ UNCHANGED <<cachedClient, vin, vout, hin, hout>>

\* await client.query('BEGIN') (handler.js:94-133)
BeginDone(i) ==
    /\ inv[i].pc = "begin"
    /\ AtHead(i, inv[i].client)
    /\ LET cl == clients[inv[i].client]
       IN  \E o \in Outcomes(cl, BeginStatement, TRUE), t \in Times(clock) :
             LET x == Execute(cl, committed, BeginStatement, o, {}, clock)
                 l == [inv[i] EXCEPT !.transactionId = TransactionIdOf(i), !.now = t]
             IN  /\ CountFault(cl, BeginStatement, TRUE, o)
                 /\ clock' = IF o = "ok" THEN t ELSE clock
                 /\ IF o # "ok"
                    THEN Step(i, x, Catch(inv[i], Error(o, "BEGIN")))
                    ELSE IF inv[i].value.t = "undefined"
                    THEN Step(i, x, Catch(l, Error("type", "purchaseData")))
                    ELSE Step(i, x, [l EXCEPT !.pc = "insert"])

\* await client.query(insertQuery, values) (handler.js:133-140)
InsertDone(i) ==
    /\ inv[i].pc = "insert"
    /\ AtHead(i, inv[i].client)
    /\ LET cl == clients[inv[i].client]
           values == InsertValues(inv[i].transactionId, inv[i].value.f, inv[i].now)
           accepted == InsertAccepted(values)
       IN  \E o \in Outcomes(cl, "INSERT", accepted) :
             LET x == Execute(cl, committed, "INSERT", o, {RowOf(values)}, clock)
             IN  /\ CountFault(cl, "INSERT", accepted, o)
                 /\ IF o # "ok"
                    THEN Step(i, x, Catch(inv[i], Error(o, "INSERT")))
                    ELSE Step(i, x,
                              [inv[i] EXCEPT !.pc = "pay",
                                             !.paymentData = PaymentData(inv[i].value.f)])
    /\ UNCHANGED clock

\* await processPayment(...) returns (handler.js:136-152): the timer of
\* processPayment fires, and the UPDATE is issued.
PaymentDone(i) ==
    /\ inv[i].pc = "pay"
    /\ \E t \in Times(clock) :
          /\ clock' = t
          /\ inv' = [inv EXCEPT ![i] =
                [@ EXCEPT !.paymentResult =
                              ProcessPayment(inv[i].paymentData, ProcessorIdOf(i), t),
                          !.updatedAt = t,
                          !.pc = "update"]]
    /\ queue' = [queue EXCEPT ![inv[i].client] = Append(@, i)]
    /\ UNCHANGED <<cachedClient, clients, committed, faults, vin, vout, hin, hout>>

\* await client.query('UPDATE ...') (handler.js:143-155)
UpdateDone(i) ==
    /\ inv[i].pc = "update"
    /\ AtHead(i, inv[i].client)
    /\ LET cl == clients[inv[i].client]
           rows == UpdateRows(cl, committed, FinalStatus(inv[i].paymentResult),
                              inv[i].updatedAt, inv[i].transactionId, clock)
       IN  \E o \in Outcomes(cl, "UPDATE", TRUE) :
             LET x == Execute(cl, committed, "UPDATE", o, rows, clock)
             IN  /\ CountFault(cl, "UPDATE", TRUE, o)
                 /\ IF o # "ok"
                    THEN Step(i, x, Catch(inv[i], Error(o, "UPDATE")))
                    ELSE Step(i, x, [inv[i] EXCEPT !.pc = "commit"])
    /\ UNCHANGED clock

\* await client.query('COMMIT') (handler.js:155-170), and the handler's 201
\* (handler.js:258-262)
CommitDone(i) ==
    /\ inv[i].pc = "commit"
    /\ AtHead(i, inv[i].client)
    /\ LET cl == clients[inv[i].client]
       IN  \E o \in Outcomes(cl, CommitStatement, TRUE) :
             LET x == Execute(cl, committed, CommitStatement, o, {}, clock)
             IN  /\ CountFault(cl, CommitStatement, TRUE, o)
                 /\ IF o # "ok"
                    THEN Step(i, x, Catch(inv[i], Error(o, "COMMIT")))
                    ELSE Step(i, x, Respond(inv[i], 201, PurchaseResult(inv[i])))
    /\ UNCHANGED clock

\* await client.query('ROLLBACK'); throw error (handler.js:173-174), and the
\* handler's catch
RollbackDone(i) ==
    /\ inv[i].pc = "rollback"
    /\ AtHead(i, inv[i].client)
    /\ LET cl == clients[inv[i].client]
       IN  \E o \in Outcomes(cl, CatchStatement, TRUE) :
             LET x == Execute(cl, committed, CatchStatement, o, {}, clock)
             IN  /\ CountFault(cl, CatchStatement, TRUE, o)
                 /\ Step(i, x,
                         InternalError(inv[i], IF o = "ok" THEN inv[i].caught
                                               ELSE Error(o, "ROLLBACK")))
    /\ UNCHANGED clock

\* getPlayerTransactions: await client.query('SELECT ...') (handler.js:206-215),
\* and the handler's 200 (handler.js:278-284)
SelectDone(i) ==
    /\ inv[i].pc = "select"
    /\ AtHead(i, inv[i].client)
    /\ LET cl == clients[inv[i].client]
           accepted == IsUuid(inv[i].playerId)
       IN  \E o \in Outcomes(cl, "SELECT", accepted) :
             LET x == Execute(cl, committed, "SELECT", o, {}, clock)
             IN  /\ CountFault(cl, "SELECT", accepted, o)
                 /\ IF o # "ok"
                    THEN Step(i, x, InternalError(inv[i], Error(o, "SELECT")))
                    ELSE \E s \in SelectRows(View(cl, committed), inv[i].playerId,
                                               LimitArg(NoNum)) :
                            Step(i, x, Respond(inv[i], 200, [transactions |-> s]))
    /\ UNCHANGED clock

(***************************************************************************)
(* The validation harness: purchaseSchema.validate on one body.            *)
(***************************************************************************)
NoOutput == [details |-> <<>>, value |-> NullBody]

\* The bodies the harness draws from: every combination of these field values.
LongName(n) == Rep("n", n)
PlayerIds == {NoStr, Str(Player1), Str(<<"p","l","a","y","e","r","-","1">>)}
ItemIds == {NoStr, Str(<<>>), Str(Sword)}
ItemNames == {NoStr, Str(<<>>), Str(Sword), Str(LongName(ItemNameMax)),
              Str(LongName(ItemNameMax + 1))}
Prices == {NoNum, Int_(0), Int_(1), Int_(PriceMax), Int_(PriceMax + 1), Frac(19)}
Currencies == {NoStr, Str(<<"U","S">>), Str(<<"u","s","d">>), Str(<<"U","S","D">>),
               Str(<<"U","S","D","X">>), Str(<<"1","2","$">>)}
Quantities == {NoNum, Int_(0), Int_(1), Int_(QuantityMax), Int_(QuantityMax + 1)}
Metadatas == {NoObj, Obj(<<(<<"rarity", "legendary">>)>>), NotObj}

Bodies ==
    {[t |-> "object", f |-> f, extra |-> e] :
        f \in [player_id : PlayerIds, item_id : ItemIds, item_name : ItemNames,
               price_cents : Prices, currency : Currencies, quantity : Quantities,
               metadata : Metadatas],
        e \in BOOLEAN}

ValidateStep ==
    /\ vout = NoOutput
    /\ vout' = Validate(vin)
    /\ UNCHANGED <<inv, cachedClient, clients, queue, committed, clock, faults, vin,
                   hin, hout>>

(***************************************************************************)
(* The query harness: the SELECT of getPlayerTransactions(playerId, limit)  *)
(* (handler.js:202-215) on a table that earlier purchases have filled.      *)
(***************************************************************************)
Player2 == [Player1 EXCEPT ![1] = "6"]

\* The row a completed purchase of playerId at time createdAt has left.
SeedRow(id, playerId, createdAt) ==
    LET d == [Convert(EvCheap.body.json.f) EXCEPT !.player_id = Str(playerId)]
    IN  [RowOf(InsertValues(id, d, createdAt)) EXCEPT
            !.status = TransactionStatus.COMPLETED]

\* Up to four rows, two of them of the same player and the same created_at.
SmallTables ==
    SUBSET {SeedRow(1, Player1, 0), SeedRow(2, Player1, 0), SeedRow(3, Player1, 1),
            SeedRow(4, Player2, 1)}

\* n rows of one player with n different created_at.
BigTable(n) == {SeedRow(k, Player1, (k * 379) % 1009) : k \in 1..n}

Tables == SmallTables \cup {BigTable(150), BigTable(MaxRows)}
Limits == {NoNum, Int_(1), Int_(2), Int_(HistoryLimit), Int_(1000), Int_(MaxRows)}

QueryStep ==
    /\ "none" \in DOMAIN hout
    /\ \E s \in SelectRows(committed, hin.playerId, LimitArg(hin.limit)) :
          hout' = [rows |-> s]
    /\ UNCHANGED <<inv, cachedClient, clients, queue, committed, clock, faults,
                   vin, vout, hin>>

(***************************************************************************)
(* Specifications                                                          *)
(***************************************************************************)
InitHandler ==
    /\ inv = [i \in Inv |-> IdleInv]
    /\ cachedClient = 0
    /\ clients = [c \in ClientIds |-> NewSession]
    /\ queue = [c \in ClientIds |-> <<>>]
    /\ committed = {}
    /\ clock = 0
    /\ faults = 0

Init ==
    /\ InitHandler
    /\ vin = NullBody
    /\ vout = NoOutput
    /\ hin = NoValue
    /\ hout = NoValue

Resume(i) ==
        \/ ProbeDone(i)
        \/ ConnectDone(i)
        \/ BeginDone(i)
        \/ InsertDone(i)
        \/ PaymentDone(i)
        \/ UpdateDone(i)
        \/ CommitDone(i)
        \/ RollbackDone(i)
        \/ SelectDone(i)

Next ==
    \E i \in Inv :
        \/ \E ev \in Events : Invoke(i, ev)
        \/ Resume(i)

Spec == Init /\ [][Next]_vars

\* Invocations in flight at once in one process, sharing cachedClient.
NextConcurrent ==
    \E i \in Inv :
        \/ \E ev \in Events : Handle(i, ev)
        \/ Resume(i)

SpecConcurrent == Init /\ [][NextConcurrent]_vars

\* purchaseSchema.validate alone, on every body of Bodies.
InitValidate ==
    /\ InitHandler
    /\ vin \in Bodies
    /\ vout = NoOutput
    /\ hin = NoValue
    /\ hout = NoValue

SpecValidate == InitValidate /\ [][ValidateStep]_vars

\* The SELECT of getPlayerTransactions alone, on every table of Tables.
InitQuery ==
    /\ inv = [i \in Inv |-> IdleInv]
    /\ cachedClient = 0
    /\ clients = [c \in ClientIds |-> NewSession]
    /\ queue = [c \in ClientIds |-> <<>>]
    /\ committed \in Tables
    /\ clock = 0
    /\ faults = 0
    /\ vin = NullBody
    /\ vout = NoOutput
    /\ hin \in [playerId : {Player1}, limit : Limits]
    /\ hout = NoValue

SpecQuery == InitQuery /\ [][QueryStep]_vars

(***************************************************************************)
(* Properties                                                              *)
(***************************************************************************)
Done(i) == inv[i].pc = "done"
Returned(i, code) == Done(i) /\ inv[i].resp.statusCode = code
\* the fields of the request body as the caller sent them
Raw(i) == inv[i].ev.body.json.f
RowsOf(table, id) == {r \in table : r.transaction_id = id}
FaultAfterInsert(i) == inv[i].caught.at \in {"UPDATE", "COMMIT"}

\* C1, as claimed: after a fault that follows the insert (the UPDATE or the
\* COMMIT failed) the row of the transaction stays persisted with status
\* 'pending', and the caller gets the fault.
C1_PendingRowKept ==
    \A i \in Inv :
        (Done(i) /\ FaultAfterInsert(i)) =>
            /\ inv[i].resp.statusCode = 500
            /\ \E r \in RowsOf(committed, inv[i].transactionId) :
                    r.status = TransactionStatus.PENDING

\* C2, as claimed: once the insert has succeeded and the pipeline waits for
\* the authorization, the row is durable: committed, with status 'pending'.
C2_InsertDurable ==
    \A i \in Inv :
        inv[i].pc = "pay" =>
            \E r \in RowsOf(committed, inv[i].transactionId) :
                r.status = TransactionStatus.PENDING

\* C3, as claimed: a purchase with price_cents < 100000 that is processed is
\* answered 'completed' with a processor id in the response's payment part
\* and on the persisted row.
C3_CompletedWithProcessorId ==
    \A i \in Inv :
        (Returned(i, 201) /\ Raw(i).price_cents.n < 100000) =>
            /\ inv[i].resp.body.status = "completed"
            /\ "processorId" \in DOMAIN inv[i].resp.body.payment
            /\ \E r \in RowsOf(committed, inv[i].resp.body.transactionId) :
                    r.processor_id # NullId

\* C4, as claimed: a purchase with price_cents >= 100000 ends 'failed', in the
\* response and on the row, and no processor id is set in the payment result,
\* in the response or on the row.
C4_FailedWithoutProcessorId ==
    \A i \in Inv :
        (Returned(i, 201) /\ Raw(i).price_cents.n >= 100000) =>
            /\ inv[i].resp.body.status = "failed"
            /\ \A r \in RowsOf(committed, inv[i].resp.body.transactionId) :
                    r.status = "failed" /\ r.processor_id = NullId
            /\ "processorId" \notin DOMAIN inv[i].resp.body.payment
            /\ "processorId" \notin DOMAIN inv[i].paymentResult

Declined(i) ==
    /\ "success" \in DOMAIN inv[i].paymentResult
    /\ ~inv[i].paymentResult.success

Invalid(i) ==
    /\ inv[i].pc # "idle"
    /\ Route(inv[i].ev) = "purchase"
    /\ inv[i].ev.body.kind # "badtext"
    /\ inv[i].ev.body.json.t = "object"
    /\ AllDetails(inv[i].ev.body.json) # <<>>

\* C6: an invocation whose request fails the validation is answered 400 with
\* the validation error in its first step; it never calls getDbClient or
\* processPurchase, holds no client and no transaction id, and the step
\* leaves the cached client, the sessions, the queues and the table unchanged.
C6_InvalidLeavesNoTrace ==
    /\ [](\A i \in Inv :
            Invalid(i) =>
                /\ Returned(i, 400)
                /\ inv[i].resp.body.details # <<>>
                /\ inv[i].target = 0 /\ inv[i].client = 0
                /\ inv[i].transactionId = NullId)
    /\ [][\A i \in Inv :
            (inv[i].pc = "idle" /\ Invalid(i)') =>
                UNCHANGED <<cachedClient, clients, queue, committed>>]_vars

C6_Witness ==
    \E i \in Inv :
        /\ Invalid(i)
        /\ Returned(i, 400)
        /\ committed # {}

ViolatedFields(b) ==
    {SchemaKeys[k] : k \in {k \in 1..Len(SchemaKeys) :
                              FieldError(SchemaKeys[k], b.f) # "ok"}}
ListedFields(details) == {details[k][1] : k \in 1..Len(details)}

\* C7, as claimed: the validation error lists every field of the body that
\* violates its constraint.
C7_EveryViolationListed ==
    vout # NoOutput => ViolatedFields(vin) \subseteq ListedFields(vout.details)

\* the acceptance condition in the words of C8
ClaimedValid(f) ==
    /\ f.player_id.t = "str" /\ IsUuid(f.player_id.s)
    /\ f.item_id.t = "str" /\ Len(f.item_id.s) > 0
    /\ f.item_name.t = "str" /\ Len(f.item_name.s) \in 1..255
    /\ f.price_cents.t = "int" /\ f.price_cents.n \in 1..99999999
    /\ f.currency.t = "str" /\ Len(f.currency.s) = 3
    /\ \A k \in 1..Len(f.currency.s) : IsLetter(f.currency.s[k])
    /\ f.quantity.t = "absent" \/ (f.quantity.t = "int" /\ f.quantity.n \in 1..100)

\* C8, as claimed: a body (whose metadata is absent or an object and which has
\* no unknown key) is accepted if and only if player_id is a UUID, item_id is
\* non-empty, item_name has 1..255 characters, price_cents is an integer in
\* 1..99999999, currency is exactly 3 letters and quantity, when present, is
\* an integer in 1..100.
C8_AcceptedIffWellFormed ==
    (vout # NoOutput /\ vin.f.metadata.t # "other" /\ ~vin.extra) =>
        ((vout.details = <<>>) <=> ClaimedValid(vin.f))

\* C9: a processed purchase stores and echoes the normalized values: the
\* currency in upper case, quantity 1 when the request has none, and the
\* metadata of the request, or the empty map when it has none.
C9_NormalizedValuesStored ==
    \A i \in Inv :
        Returned(i, 201) =>
            /\ inv[i].resp.body.payment.currency = ToUpperCase(Raw(i).currency.s)
            /\ inv[i].resp.body.item.quantity =
                  (IF Raw(i).quantity.t = "absent" THEN 1 ELSE Raw(i).quantity.n)
            /\ RowsOf(committed, inv[i].transactionId) # {}
            /\ \A r \in RowsOf(committed, inv[i].transactionId) :
                  /\ r.currency = ToUpperCase(Raw(i).currency.s)
                  /\ r.quantity =
                        (IF Raw(i).quantity.t = "absent" THEN 1 ELSE Raw(i).quantity.n)
                  /\ r.metadata =
                        {Raw(i).metadata.kv[k] : k \in 1..Len(Raw(i).metadata.kv)}

C9_Witness ==
    \E i \in Inv :
        /\ Returned(i, 201)
        /\ Raw(i).currency.s = <<"u","s","d">>
        /\ Raw(i).quantity.t = "absent"
        /\ Raw(i).metadata.t = "absent"
        /\ \E r \in RowsOf(committed, inv[i].transactionId) :
              r.currency = <<"U","S","D">> /\ r.quantity = 1 /\ r.metadata = {}

\* C10: the amount handed to processPayment is the request's price_cents,
\* whatever the quantity, and a processed purchase is 'completed' exactly when
\* price_cents is below 100000.
C10_AmountIsUnitPrice ==
    \A i \in Inv :
        /\ "amount" \in DOMAIN inv[i].paymentData =>
              inv[i].paymentData.amount = Raw(i).price_cents.n
        /\ Returned(i, 201) =>
              (inv[i].resp.body.status = "completed" <=> Raw(i).price_cents.n < 100000)

C10_Witness ==
    \E i \in Inv :
        /\ Returned(i, 201)
        /\ inv[i].resp.body.status = "completed"
        /\ Raw(i).quantity.n = 100
        /\ Raw(i).price_cents.n * Raw(i).quantity.n >= 100000

\* every row the store holds: committed, or written in an open transaction
Stored == committed \cup UNION {clients[c].overlay : c \in ClientIds}
FinalStatuses == {TransactionStatus.COMPLETED, TransactionStatus.FAILED}
\* the invocation that drew transaction id id
InvocationOf(id) == CHOOSE i \in Inv : TransactionIdOf(i) = id

\* C11: every row follows pending -> completed | failed.  A row appears with
\* status 'pending'; a step changes a row's status only from 'pending', and
\* only to the status the authorization outcome of its invocation gives; a
\* row that is 'completed' or 'failed' is not written again.
C11_Lifecycle ==
    [][/\ \A r \in Stored' :
            LET old == RowsOf(Stored, r.transaction_id)
            IN  IF old = {} THEN r.status = TransactionStatus.PENDING
                ELSE \E q \in old :
                        \/ r.status = q.status
                        \/ /\ q.status = TransactionStatus.PENDING
                           /\ r.status \in FinalStatuses
                           /\ r.status =
                                FinalStatus(inv[InvocationOf(r.transaction_id)].paymentResult)
       /\ \A r \in Stored :
            r.status \in FinalStatuses =>
                \A q \in RowsOf(Stored', r.transaction_id) : q = r]_vars

C11_Witness ==
    /\ \E r \in committed : r.status = TransactionStatus.FAILED
    /\ \E r \in committed : r.status = TransactionStatus.COMPLETED

\* C12, as claimed: while an invocation waits for the payment authorization
\* it holds no store connection and no database transaction is open.
C12_NothingHeldAcrossAuthorization ==
    \A i \in Inv :
        inv[i].pc = "pay" =>
            /\ inv[i].client = 0
            /\ \A c \in ClientIds :
                  clients[c].state = "connected" => clients[c].tx = "idle"

SamePurchase(i, j) ==
    /\ Route(inv[i].ev) = "purchase"
    /\ inv[i].ev = inv[j].ev
    /\ inv[i].op = "purchase" /\ inv[j].op = "purchase"
Authorized(i) == "success" \in DOMAIN inv[i].paymentResult

\* C13, as claimed: when the same valid purchase request is submitted a second
\* time, the second submission creates no additional row and performs no
\* second authorization.
C13_RetryIsIdempotent ==
    \A i, j \in Inv :
        (i < j /\ SamePurchase(i, j)) =>
            /\ ~(Authorized(i) /\ Authorized(j))
            /\ \/ RowsOf(committed, inv[i].transactionId) = {}
               \/ RowsOf(committed, inv[j].transactionId) = {}

\* C14, as claimed: a success response carries the generated transaction id,
\* the final status, the item id, name and quantity of the validated request,
\* and the payment amount, currency and processor reference.
C14_SuccessResponseComplete ==
    \A i \in Inv :
        Returned(i, 201) =>
            LET b == inv[i].resp.body
                v == inv[i].value.f
            IN  /\ b.transactionId = TransactionIdOf(i)
                /\ b.status = FinalStatus(inv[i].paymentResult)
                /\ b.item = [id |-> v.item_id.s, name |-> v.item_name.s,
                             quantity |-> v.quantity.n]
                /\ DOMAIN b.payment = {"amount", "currency", "processorId"}
                /\ b.payment.amount = v.price_cents.n
                /\ b.payment.currency = v.currency.s
                /\ b.payment.processorId = inv[i].paymentResult.processorId

Queried == "rows" \in DOMAIN hout
\* the rows of the table the query asks for
Matching == {r \in committed : r.player_id = ToLowerCase(hin.playerId)}

\* C15, as claimed: the history query returns only rows of the requested
\* player, ordered by created_at descending and, among rows of equal
\* created_at, by transaction_id descending.
C15_DeterministicOrder ==
    Queried =>
        /\ LET p == ToLowerCase(hin.playerId)
           IN  \A k \in 1..Len(hout.rows) : hout.rows[k].player_id = p
        /\ \A a, b \in 1..Len(hout.rows) :
              a < b =>
                \/ hout.rows[a].created_at > hout.rows[b].created_at
                \/ /\ hout.rows[a].created_at = hout.rows[b].created_at
                   /\ hout.rows[a].transaction_id > hout.rows[b].transaction_id

C17_PageWithHasMore ==
    Queried =>
        /\ Len(hout.rows) <= LimitArg(hin.limit)
        /\ "has_more" \in DOMAIN hout
        /\ hout.has_more = (/\ Len(hout.rows) = LimitArg(hin.limit)
                            /\ Cardinality(Matching) > Len(hout.rows))

\* the rows the UPDATE of invocation i matches when it is executed now
UpdateMatches(i) ==
    UpdateRows(clients[inv[i].client], committed, FinalStatus(inv[i].paymentResult),
               inv[i].updatedAt, inv[i].transactionId, clock)

\* C18, as claimed: when the finalizing UPDATE of an invocation matches no
\* row, the update does not complete silently: the invocation does not go on
\* to COMMIT and a success response, it ends in the error path.
C18_UpdateOfNoRowFails ==
    [][\A i \in Inv :
          (inv[i].pc = "update" /\ UpdateMatches(i) = {}) =>
              inv'[i].pc \in {"update", "rollback"}]_vars

\* C19, as claimed: a payment result has a boolean success flag and exactly
\* one shape: on success a processor reference and no failure reason, on
\* failure a failure reason and no processor reference.
C19_PaymentResultIsTaggedUnion ==
    \A i \in Inv :
        Authorized(i) =>
            LET p == inv[i].paymentResult
            IN  /\ p.success \in BOOLEAN
                /\ p.success => ("processorId" \in DOMAIN p /\ "error" \notin DOMAIN p)
                /\ ~p.success => ("error" \in DOMAIN p /\ "processorId" \notin DOMAIN p)

\* C20, as claimed: a row that a history query has returned is never deleted:
\* the store still holds a row with its transaction id, so that every later
\* history query of the player whose limit admits it returns it.
C20_NeverDeleted ==
    \A i \in Inv :
        (Returned(i, 200) /\ "transactions" \in DOMAIN inv[i].resp.body) =>
            \A k \in 1..Len(inv[i].resp.body.transactions) :
                RowsOf(Stored, inv[i].resp.body.transactions[k].transaction_id) # {}

\* the kinds of error the interface enumerates, and the kind a fault has by
\* its cause
ErrorKinds == {"Validation", "NotFound", "Database", "Payment"}
KindOf(e) ==
    IF e.at \in {"connect", "BEGIN", "INSERT", "UPDATE", "COMMIT", "ROLLBACK", "SELECT"}
    THEN "Database"
    ELSE "Validation"

\* C21, as claimed: a fault while a purchase is processed reaches the caller
\* as the one error kind that matches its cause (a failure of the store in the
\* insert, the finalization or the commit is a Database error), and a failure
\* of the clean-up ROLLBACK never replaces the original fault.
C21_FaultReachesCallerByKind ==
    \A i \in Inv :
        (Done(i) /\ inv[i].op = "purchase" /\ inv[i].caught # NoError) =>
            /\ inv[i].thrown = inv[i].caught
            /\ inv[i].resp.body.error \in ErrorKinds
            /\ inv[i].resp.body.error = KindOf(inv[i].caught)

(***************************************************************************)
(* processPurchase called with data purchaseSchema has not seen            *)
(* (handler.js:89-176): the table's constraints are the only guard.        *)
(***************************************************************************)
\* purchaseData at and beyond the limits of the CHECK constraints
Unvalidated ==
    {Purchase(Int_(PriceMax), <<"U","S","D">>, Int_(QuantityMax), NoObj),
     Purchase(Int_(PriceMin - 1), <<"U","S","D">>, Int_(QuantityMin), NoObj),
     Purchase(Int_(PriceMax + 1), <<"U","S","D">>, Int_(QuantityMin), NoObj),
     Purchase(Int_(PriceMin), <<"U","S","D">>, Int_(QuantityMin - 1), NoObj),
     Purchase(Int_(PriceMin), <<"U","S","D">>, Int_(QuantityMax + 1), NoObj),
     Purchase(Int_(PriceMin), <<"U","S","D">>, NoNum, NoObj)}

\* processPurchase(purchaseData) up to its first await (handler.js:89-90)
ProcessPurchase(i, purchaseData) ==
    /\ \A j \in Inv : inv[j].pc \in {"idle", "done"}
    /\ inv[i].pc = "idle"
    /\ \A j \in 1..(i-1) : inv[j].pc # "idle"
    /\ GetDbClient(i, [inv[i] EXCEPT !.op = "purchase", !.value = purchaseData])
    /\ UNCHANGED <<committed, clock, faults, vin, vout, hin, hout>>

NextUnvalidated ==
    \E i \in Inv :
        \/ \E purchaseData \in Unvalidated : ProcessPurchase(i, purchaseData)
        \/ ProbeDone(i)
        \/ ConnectDone(i)
        \/ BeginDone(i)
        \/ InsertDone(i)
        \/ PaymentDone(i)
        \/ UpdateDone(i)
        \/ CommitDone(i)
        \/ RollbackDone(i)

SpecUnvalidated == Init /\ [][NextUnvalidated]_vars

\* C22: every row the store holds, committed or not, has
\* 1 <= price_cents <= 99,999,999, 1 <= quantity <= 100 and a status among
\* pending, completed, failed, refunded, also when processPurchase is called
\* with data that did not pass validation: the store rejects the insert.
C22_RowsWithinConstraints ==
    \A r \in Stored :
        /\ PriceMin <= r.price_cents /\ r.price_cents <= PriceMax
        /\ QuantityMin <= r.quantity /\ r.quantity <= QuantityMax
        /\ r.status \in {"pending", "completed", "failed", "refunded"}

\* a purchase at both upper limits is stored, and one with price 0 was
\* rejected by the INSERT and left no row
C22_Witness ==
    \E i, j \in Inv :
        /\ Done(i) /\ inv[i].value.f.price_cents.n = PriceMin - 1
        /\ inv[i].caught = Error("stmt", "INSERT")
        /\ RowsOf(Stored, inv[i].transactionId) = {}
        /\ Returned(j, 201)
        /\ \E r \in RowsOf(committed, inv[j].transactionId) :
              r.price_cents = PriceMax /\ r.quantity = QuantityMax

\* the step in which the finalizing UPDATE of invocation i succeeds
Finalizes(i) == inv[i].pc = "update" /\ inv'[i].pc = "commit"

\* the finalizing UPDATE of invocation i changes nothing but status and
\* updated_at of the rows with its id, and leaves every other row alone
UpdateFrame(i) ==
    LET id == inv[i].transactionId
    IN  /\ {r \in Stored : r.transaction_id # id} = {r \in Stored' : r.transaction_id # id}
        /\ \A r \in RowsOf(Stored, id) :
              \E q \in RowsOf(Stored', id) :
                  q = [r EXCEPT !.status = q.status, !.updated_at = q.updated_at]
        /\ Cardinality(RowsOf(Stored', id)) = Cardinality(RowsOf(Stored, id))

\* C23, as claimed: the finalizing update changes only status and updated_at
\* of the one row with the invocation's id, every other field and row stays,
\* and updated_at after the update is not earlier than created_at.
C23_UpdateChangesOnlyStatus ==
    [][\A i \in Inv :
          Finalizes(i) =>
              /\ UpdateFrame(i)
              /\ \A q \in RowsOf(Stored', inv[i].transactionId) :
                    q.updated_at >= q.created_at]_vars

\* C24, as claimed: under every interleaving of invocations that share the
\* cached client, an invocation that returned a success response has a
\* committed row with its transactionId whose status is the response's; none
\* returns 'completed' or 'failed' for a row that is absent or still pending.
C24_SuccessHasCommittedRow ==
    \A i \in Inv :
        Returned(i, 201) =>
            \E r \in RowsOf(committed, inv[i].resp.body.transactionId) :
                r.status = inv[i].resp.body.status

\* the step in which the ROLLBACK, or the COMMIT, of invocation i is executed
\* by a session that stays connected
RollsBack(i) ==
    /\ inv[i].pc = "rollback" /\ inv'[i].pc = "done"
    /\ clients'[inv[i].client].state = "connected"
Commits(i) ==
    /\ inv[i].pc = "commit" /\ inv'[i].pc # "commit"
    /\ clients'[inv[i].client].state = "connected"

\* C25, as claimed: the transaction-control statements of an invocation touch
\* its own writes only.  Its ROLLBACK discards no row of another invocation,
\* and its COMMIT makes no row of another invocation durable.
C25_ControlTouchesOwnWrites ==
    [][\A i \in Inv :
          /\ RollsBack(i) =>
                \A r \in Stored : r.transaction_id # TransactionIdOf(i) => r \in Stored'
          /\ Commits(i) =>
                \A r \in committed' \ committed : r.transaction_id = TransactionIdOf(i)]_vars

\* C26, as claimed: when invocations do not overlap, the record and its
\* finalization commit as one unit.  After a purchase invocation has ended,
\* either it returned a response and a committed row with its id is
\* 'completed' or 'failed', or it ended with an error and no row with its id
\* exists; a reader on another connection never sees a 'pending' row.
C26_AtomicRecordAndStatus ==
    /\ \A i \in Inv :
          (Done(i) /\ inv[i].op = "purchase") =>
              \/ /\ Returned(i, 201)
                 /\ \E r \in RowsOf(committed, TransactionIdOf(i)) :
                       r.status \in FinalStatuses
              \/ /\ Returned(i, 500)
                 /\ RowsOf(committed, TransactionIdOf(i)) = {}
    /\ \A r \in committed : r.status # TransactionStatus.PENDING

\* the awaits of processPurchase between its BEGIN and its end
InTransaction == {"begin", "insert", "pay", "update", "commit", "rollback"}

\* C27: an invocation that issued BEGIN ends only from its COMMIT or its
\* ROLLBACK, and leaves no transaction open on the client.  It issues COMMIT
\* only after its UPDATE has succeeded, and it issues ROLLBACK at every step
\* in which a statement from BEGIN to COMMIT fails.
C27_TransactionAlwaysClosed ==
    [][\A i \in Inv :
          inv[i].op = "purchase" =>
              /\ (inv[i].pc \in InTransaction /\ inv'[i].pc = "done") =>
                    /\ inv[i].pc \in {"commit", "rollback"}
                    /\ inv[i].pc = "commit" => inv'[i].resp.statusCode = 201
                    /\ clients'[inv[i].client].tx # "open"
              /\ (inv[i].pc # "commit" /\ inv'[i].pc = "commit") =>
                    /\ inv[i].pc = "update"
                    /\ faults' = faults /\ inv'[i].caught = NoError
                    /\ clients'[inv[i].client].state = "connected"
                    /\ clients[inv[i].client].tx # "aborted"
              /\ (inv[i].pc \in {"begin", "insert", "update", "commit"}
                    /\ inv'[i] # inv[i]
                    /\ (faults' # faults \/ inv'[i].caught # NoError)) =>
                    /\ inv'[i].pc = "rollback"
                    /\ \E k \in 1..Len(queue'[inv[i].client]) :
                          queue'[inv[i].client][k] = i]_vars

\* the COMMIT itself failed, ROLLBACK was issued and the invocation ended
\* with the transaction closed
C27_Witness ==
    \E i \in Inv :
        /\ Done(i)
        /\ inv[i].caught = Error("stmt", "COMMIT")
        /\ inv[i].thrown = inv[i].caught
        /\ clients[inv[i].client].tx = "idle"
        /\ clients[inv[i].client].state = "connected"

\* the clients of the process whose connection is open
Connected == {c \in ClientIds : clients[c].state = "connected"}

\* C28, as claimed: after any sequence and interleaving of getDbClient calls
\* at most one connected client exists in the process and cachedClient is
\* that client: concurrent calls do not each open a connection, and a client
\* replaced after a failed 'SELECT 1' is not left open.
C28_OneConnectedClient ==
    /\ Cardinality(Connected) <= 1
    /\ \A c \in Connected : cachedClient = c

(***************************************************************************)
(* exports.handler on every kind of request, each await resolving or       *)
(* rejecting in the end.                                                   *)
(***************************************************************************)
\* a body that is not JSON, a purchase without a body, a history request
\* without a player id, and a path the handler does not route
EvUnparsable == Event("POST", PurchasePath, "badtext", UndefinedBody)
EvNoBody == Event("POST", PurchasePath, "value", UndefinedBody)
EvNoPlayer == Event("GET", Path("transactions", TRUE, <<>>), "value", UndefinedBody)
EvHealth == Event("GET", Path("health", FALSE, <<>>), "value", UndefinedBody)

Requests == {EvCheap, EvInvalid, EvHistory,
             EvUnparsable, EvNoBody, EvNoPlayer, EvHealth}

NextResponds ==
    \E i \in Inv :
        \/ \E ev \in Requests : Invoke(i, ev)
        \/ Resume(i)

\* Every query, connect and payment call a suspended invocation awaits is
\* settled in the end, and the event loop then runs the invocation on.  One
\* invocation is in flight at a time, so the fairness of the in-flight
\* invocation's next step is the fairness of \E i : Resume(i).
SpecResponds ==
    Init /\ [][NextResponds]_vars /\ WF_vars(\E i \in Inv : Resume(i))

\* the status code the interface gives the request of invocation i
ResponseMatches(i) ==
    LET ev == inv[i].ev
        code == inv[i].resp.statusCode
        faulted == inv[i].thrown # NoError
    IN  IF ev.body.kind = "badtext" THEN code = 500
        ELSE CASE Route(ev) = "purchase" ->
                    IF Validate(ev.body.json).details # <<>> THEN code = 400
                    ELSE code = (IF faulted THEN 500 ELSE 201)
               [] Route(ev) = "transactions" ->
                    IF ev.path.rest = <<>> THEN code = 400
                    ELSE code = (IF faulted THEN 500 ELSE 200)
               [] OTHER -> code = 404

\* an invocation has started and has not returned
InFlight == \E i \in Inv : inv[i].pc \notin {"idle", "done"}

\* C29: every invocation of the handler returns a response in the end,
\* returns one only, and never lets a fault leave the handler, provided every
\* await is settled in the end: 201 for a processed purchase, 400 for a
\* validation failure or a missing player id, 200 for a history read, 404 for
\* any other method or path, 500 for any fault, an unparsable body included.
C29_AlwaysOneResponse ==
    /\ [](\A i \in Inv : Done(i) => ResponseMatches(i))
    /\ [][\A i \in Inv : Done(i) => inv'[i] = inv[i]]_vars
    /\ InFlight ~> ~InFlight

\* an unparsable body was answered 500 and a purchase was answered 201
C29_Witness ==
    \E i, j \in Inv :
        /\ Returned(i, 500) /\ inv[i].ev = EvUnparsable
        /\ inv[i].thrown = Error("syntax", "JSON.parse")
        /\ Returned(j, 201) /\ inv[j].ev = EvCheap

=============================================================================
